---- MODULE Spec2Model ----
(***************************************************************************)
(* Model of the scheduling engine of YouthScheduleAutomator:               *)
(*   rules.py       RecurringRule.generate_dates                           *)
(*   scheduler.py   expand_events, assign_leaders, build_schedule          *)
(*   strategies.py  round_robin, random_pick, weighted, fair               *)
(*   models.py      Leader.is_available_on, Event, Assignment              *)
(*   main.py        main (the caller that names a strategy)                *)
(*                                                                         *)
(* A date is its proleptic Gregorian ordinal (datetime.date.toordinal), so *)
(* date differences, comparisons, weekdays and (year, month) are those of  *)
(* the Python run.  None is modelled by NoDate for dates, by NoGroup for a *)
(* group name and by the empty sequence for a rotation pool (the code only *)
(* tests a rotation pool for truthiness).                                  *)
(***************************************************************************)
EXTENDS Integers, Sequences, FiniteSets, TLC

\* ------------------------------------------------------------------ bounds
MaxRules == 2        \* rules handed to build_schedule
MaxEvents == 2       \* events handed directly to assign_leaders
NumLeaders == 2      \* leaders of a run
MaxCount == 2        \* largest count requested from a strategy directly
MaxCalls == 3        \* strategy calls of one directly driven strategy run
YearLeaders == 12    \* leaders of the one-rule calendar-year run
MaxRounds == 5       \* consecutive round_robin calls on one pool
MaxRotEvents == 3    \* events of a run that all rotate over one pool

\* --------------------------------------------------------- program constants
GAP_DAYS == 5
blackout_days == 5
NeverDays == 10000
DefaultSpanDays == 365
DefaultLeadersPerEvent == 2

NoDate == 0
NoGroup == "None"

\* ------------------------------------------------------------------- names
\* Every string the model sorts, in Python's str order (code point order).
NameOrder ==
  <<"A", "B", "C", "ann", "bob", "cy", "dee", "eve", "fay", "gus", "hal", "ida",
    "jon", "kim", "lou", "max", "r1", "r2", "r3", "r4">>

Rank(s) == CHOOSE i \in 1..Len(NameOrder) : NameOrder[i] = s

StrLt(a, b) == Rank(a) < Rank(b)

LeaderNames ==
  <<"ann", "bob", "cy", "dee", "eve", "fay", "gus", "hal", "ida", "jon", "kim", "lou",
    "max">>

StrategyNames == {"fair", "round_robin", "random", "weighted"}

\* ----------------------------------------------------------------- helpers
Range(s) == {s[i] : i \in 1..Len(s)}

Min(a, b) == IF a <= b THEN a ELSE b

Max(a, b) == IF a >= b THEN a ELSE b

NoDup(s) == \A i, j \in 1..Len(s) : i # j => s[i] # s[j]

\* The first n elements of s (s[:n] for n >= 0).
Take(s, n) == SubSeq(s, 1, Min(n, Len(s)))

RECURSIVE Concat(_)
\* list.extend over a sequence of sequences.
Concat(ss) == IF ss = <<>> THEN <<>> ELSE Head(ss) \o Concat(Tail(ss))

\* All index pairs of s.
Pairs(s) == (1..Len(s)) \X (1..Len(s))

\* sorted(s, key=...) / list.sort(key=...): stable.  lt holds the index pairs
\* <<i, j>> with key(s[i]) < key(s[j]).  Element i lands after every element
\* that is smaller, or equal and earlier.
StableSort(s, lt) ==
  LET n == Len(s)
      pos(i) == 1 + Cardinality({j \in 1..n :
                      <<j, i>> \in lt \/ (<<i, j>> \notin lt /\ j < i)})
  IN [k \in 1..n |-> s[CHOOSE i \in 1..n : pos(i) = k]]

\* ---------------------------------------------------------------- calendar
IsLeap(y) == (y % 4 = 0) /\ ((y % 100 # 0) \/ (y % 400 = 0))

DaysInMonth(y, m) ==
  IF m = 2 THEN (IF IsLeap(y) THEN 29 ELSE 28)
  ELSE IF m \in {4, 6, 9, 11} THEN 30 ELSE 31

DaysBeforeYear(y) ==
  (y - 1) * 365 + ((y - 1) \div 4) - ((y - 1) \div 100) + ((y - 1) \div 400)

\* days of the year before month m
DaysBeforeMonth(y, m) ==
  <<0, 31, 59, 90, 120, 151, 181, 212, 243, 273, 304, 334>>[m]
    + (IF m > 2 /\ IsLeap(y) THEN 1 ELSE 0)

\* date(y, m, d).toordinal()
MkDate(y, m, d) == DaysBeforeYear(y) + DaysBeforeMonth(y, m) + d

Years == 2026..2028

\* <<date.year, date.month>> of every ordinal of Years
YearMonthTable ==
  [o \in (DaysBeforeYear(2026) + 1)..DaysBeforeYear(2029) |->
     LET y == CHOOSE yy \in Years : DaysBeforeYear(yy) < o /\ o <= DaysBeforeYear(yy + 1)
         m == CHOOSE mm \in 1..12 :
                /\ MkDate(y, mm, 1) <= o
                /\ o <= MkDate(y, mm, DaysInMonth(y, mm))
     IN <<y, m>>]

\* date.year, date.month, date.weekday() (Monday = 0) of an ordinal
YearOf(o) == YearMonthTable[o][1]

MonthOf(o) == YearMonthTable[o][2]

Weekday(o) == (o + 6) % 7

\* date.strftime("%a").lower()
WeekdayTokens == <<"mon", "tue", "wed", "thu", "fri", "sat", "sun">>

WeekdayToken(o) == WeekdayTokens[Weekday(o) + 1]

\* (ev.date.year, ev.date.month)
YM(o) == YearMonthTable[o]

\* -------------------------------------------------------------- data model
\* Leader.is_available_on: no constraint, or the ISO date is listed, or the
\* weekday token is listed.  availability is split into the ISO dates (as
\* ordinals; isoformat is injective) and the weekday tokens it lists.
is_available_on(ld, d) ==
  IF ld.availability.dates = {} /\ ld.availability.weekdays = {} THEN TRUE
  ELSE IF d \in ld.availability.dates THEN TRUE
  ELSE IF WeekdayToken(d) \in ld.availability.weekdays THEN TRUE
  ELSE FALSE

Always == [dates |-> {}, weekdays |-> {}]

\* Leader(name, groups, availability, weight)
Leader(n, gs, av, w) == [name |-> n, groups |-> gs, availability |-> av, weight |-> w]

\* Event(...) as expand_events builds it; responsible_group defaults to None.
Event(d, k, desc, inv, mode, req, pool) ==
  [date |-> d, kind |-> k, description |-> desc, groups_involved |-> inv,
   responsibility_mode |-> mode, responsible_group |-> NoGroup,
   leader_required |-> req, rotation_pool |-> pool]

\* RecurringRule(...); description "" and groups_involved <<>> stand for None
\* (both are only used through `x or default`), responsibility None is
\* [mode |-> "none", rotation_pool |-> <<>>] (what .get() makes of {}).
RecurringRule(n, wd, nth, k, desc, inv, mode, pool) ==
  [name |-> n, weekday |-> wd, nth |-> nth, kind |-> k, description |-> desc,
   groups_involved |-> inv, responsibility |-> [mode |-> mode, rotation_pool |-> pool]]

\* ---------------------------------------------------------------- rules.py
\* The dates of month m of year y that fall on weekday wd, ascending.
MonthDaysTable ==
  [y \in Years, m \in 1..12, wd \in 0..6 |->
     SelectSeq([d \in 1..DaysInMonth(y, m) |-> MkDate(y, m, d)],
               LAMBDA o : Weekday(o) = wd)]

MonthDays(y, m, wd) == MonthDaysTable[y, m, wd]

\* Target with a negative nth counted from the start of the month
Target_FromStart(rule, y, m) ==
  LET month_days == MonthDays(y, m, rule.weekday)
      n == Len(month_days)
      a == IF rule.nth < 0 THEN -rule.nth ELSE rule.nth
  IN IF a >= 1 /\ a <= n THEN month_days[a] ELSE NoDate

\* The target date of a month, NoDate when the month has no such occurrence.
Target(rule, y, m) ==
  LET month_days == MonthDays(y, m, rule.weekday)
      n == Len(month_days)
  IN IF rule.nth > 0
     THEN (IF n >= rule.nth THEN month_days[rule.nth] ELSE NoDate)
     ELSE LET idx == rule.nth
              a == IF idx < 0 THEN -idx ELSE idx
          IN IF a <= n
             THEN (IF idx < 0 THEN month_days[n + idx + 1] ELSE month_days[1])
             ELSE NoDate

\* generate_dates without `if end and target > end: continue`
generate_dates_NoEnd(rule, y, start, end) ==
  Concat([m \in 1..12 |->
            LET target == Target(rule, y, m)
            IN IF target = NoDate THEN <<>>
               ELSE IF start # NoDate /\ target < start THEN <<>>
               ELSE <<target>>])

\* RecurringRule.generate_dates(year, start, end)
generate_dates(rule, y, start, end) ==
  Concat([m \in 1..12 |->
            LET target == Target(rule, y, m)
            IN IF target = NoDate THEN <<>>
               ELSE IF start # NoDate /\ target < start THEN <<>>
               ELSE IF end # NoDate /\ target > end THEN <<>>
               ELSE <<target>>])

\* ------------------------------------------------------- scheduler.py: expand
DateLt(e1, e2) == e1.date < e2.date

\* RuleEvents with leader_required true for every event
RuleEvents_AlwaysRequired(rule, all_groups, start, end) ==
  LET ys == YearOf(start)..YearOf(end)
      dates == Concat([k \in 1..Cardinality(ys) |->
                         generate_dates(rule, YearOf(start) + k - 1, start, end)])
      involved == IF rule.groups_involved # <<>> THEN rule.groups_involved
                  ELSE all_groups
      mode == rule.responsibility.mode
  IN [i \in 1..Len(dates) |->
        Event(dates[i], rule.kind,
              IF rule.description # "" THEN rule.description ELSE rule.name,
              involved, mode, TRUE,
              IF mode = "group" THEN rule.responsibility.rotation_pool ELSE <<>>)]

\* RuleEvents with leader_required = (mode == "leader")
RuleEvents_ModeOnly(rule, all_groups, start, end) ==
  LET ys == YearOf(start)..YearOf(end)
      dates == Concat([k \in 1..Cardinality(ys) |->
                         generate_dates(rule, YearOf(start) + k - 1, start, end)])
      involved == IF rule.groups_involved # <<>> THEN rule.groups_involved
                  ELSE all_groups
      mode == rule.responsibility.mode
  IN [i \in 1..Len(dates) |->
        Event(dates[i], rule.kind,
              IF rule.description # "" THEN rule.description ELSE rule.name,
              involved, mode, mode = "leader",
              IF mode = "group" THEN rule.responsibility.rotation_pool ELSE <<>>)]

\* The events of one rule, before the final sort.
RuleEvents(rule, all_groups, start, end) ==
  LET ys == YearOf(start)..YearOf(end)
      dates == Concat([k \in 1..Cardinality(ys) |->
                         generate_dates(rule, YearOf(start) + k - 1, start, end)])
      involved == IF rule.groups_involved # <<>> THEN rule.groups_involved
                  ELSE all_groups
      mode == rule.responsibility.mode
      leader_required == (mode = "leader") \/ (rule.kind = "separate")
  IN [i \in 1..Len(dates) |->
        Event(dates[i], rule.kind,
              IF rule.description # "" THEN rule.description ELSE rule.name,
              involved, mode, leader_required,
              IF mode = "group" THEN rule.responsibility.rotation_pool ELSE <<>>)]

\* expand_events without its final events.sort
expand_events_Unsorted(rs, all_groups, start, end) ==
  Concat([i \in 1..Len(rs) |-> RuleEvents(rs[i], all_groups, start, end)])

\* expand_events with events.sort(key=lambda e: (e.date, e.description))
expand_events_ByDateDesc(rs, all_groups, start, end) ==
  LET evs == Concat([i \in 1..Len(rs) |-> RuleEvents(rs[i], all_groups, start, end)])
  IN StableSort(evs, {p \in Pairs(evs) :
                        \/ evs[p[1]].date < evs[p[2]].date
                        \/ /\ evs[p[1]].date = evs[p[2]].date
                           /\ StrLt(evs[p[1]].description, evs[p[2]].description)})

expand_events(rs, all_groups, start, end) ==
  LET evs == Concat([i \in 1..Len(rs) |-> RuleEvents(rs[i], all_groups, start, end)])
  IN StableSort(evs, {p \in Pairs(evs) : DateLt(evs[p[1]], evs[p[2]])})

\* ----------------------------------------------------------- strategies.py
\* The state dict of a run: a key that was never set reads as its .get /
\* .setdefault default (current_date None, counts 0, no last date, rr_idx 0).
NameSet == Range(LeaderNames)

EmptyState ==
  [current_date |-> NoDate,
   fair_counts |-> [n \in NameSet |-> 0],
   fair_last |-> [n \in NameSet |-> NoDate],
   rr_idx |-> 0]

\* What a strategy call does: it returns `chosen` and leaves `state`, or raises.
Returned(chosen, st) == [raised |-> FALSE, chosen |-> chosen, state |-> st]

Raised(st) == [raised |-> TRUE, chosen |-> <<>>, state |-> st]

\* round_robin that stores the index wrapped to the size of the pool
round_robin_Wrapped(ls, count, st) ==
  LET idx == st.rr_idx
      n == Len(ls)
      taken == IF n = 0 \/ count <= 0 THEN 0 ELSE count
      selected == [j \in 1..taken |-> ls[((idx + j - 1) % n) + 1]]
  IN {Returned(selected, [st EXCEPT !.rr_idx = IF n = 0 THEN idx ELSE (idx + taken) % n])}

\* round_robin that does not store the advanced index
round_robin_NoAdvance(ls, count, st) ==
  LET idx == st.rr_idx
      n == Len(ls)
      taken == IF n = 0 \/ count <= 0 THEN 0 ELSE count
      selected == [j \in 1..taken |-> ls[((idx + j - 1) % n) + 1]]
  IN {Returned(selected, st)}

\* round_robin
round_robin(ls, count, st) ==
  LET idx == st.rr_idx
      n == Len(ls)
      taken == IF n = 0 \/ count <= 0 THEN 0 ELSE count
      selected == [j \in 1..taken |-> ls[((idx + j - 1) % n) + 1]]
  IN {Returned(selected, [st EXCEPT !.rr_idx = idx + taken])}

\* random.sample(population, k): k distinct positions, in any order;
\* ValueError for a negative k.
Samples(n, k) == {p \in [1..k -> 1..n] : NoDup(p)}

random_pick(ls, count, st) ==
  LET k == Min(count, Len(ls))
  IN IF k < 0 THEN {Raised(st)}
     ELSE {Returned([j \in 1..k |-> ls[p[j]]], st) : p \in Samples(Len(ls), k)}

\* Leader is a dataclass with eq and without frozen: its __hash__ is None, so
\* `candidate in seen` raises TypeError.
LeaderHashable == FALSE

RECURSIVE Repeat(_, _)
\* [x] * n
Repeat(x, n) == IF n <= 0 THEN <<>> ELSE <<x>> \o Repeat(x, n - 1)

RECURSIVE WeightedLoop(_, _, _, _)
\* for candidate in pool: skip the seen, append, stop at len(result) >= count
WeightedLoop(pool, count, result, seen) ==
  IF pool = <<>> THEN result
  ELSE IF Head(pool) \in seen THEN WeightedLoop(Tail(pool), count, result, seen)
  ELSE IF Len(result) + 1 >= count THEN Append(result, Head(pool))
  ELSE WeightedLoop(Tail(pool), count, Append(result, Head(pool)),
                    seen \cup {Head(pool)})

weighted(ls, count, st) ==
  LET pool == Concat([i \in 1..Len(ls) |-> Repeat(ls[i], Max(1, ls[i].weight))])
      n == Len(pool)
  IN IF n = 0 THEN {Returned(<<>>, st)}
     ELSE IF ~LeaderHashable THEN {Raised(st)}
     ELSE {Returned(WeightedLoop([j \in 1..n |-> pool[p[j]]], count, <<>>, {}), st) :
             p \in Samples(n, n)}

\* days since the leader's last assignment, 10_000 when there is none
days_since(ld, st) ==
  IF st.current_date # NoDate /\ st.fair_last[ld.name] # NoDate
  THEN st.current_date - st.fair_last[ld.name]
  ELSE NeverDays

\* sort_key variants: the name alone; the most recently assigned first
SortKeyLt_NameOnly(a, b, st) == StrLt(a.name, b.name)

SortKeyLt_RecentFirst(a, b, st) ==
  LET ca == st.fair_counts[a.name]
      cb == st.fair_counts[b.name]
      da == days_since(a, st)
      db == days_since(b, st)
  IN \/ ca < cb
     \/ ca = cb /\ da < db
     \/ ca = cb /\ da = db /\ StrLt(a.name, b.name)

\* sort_key(a) < sort_key(b) for (count, -days_since, name)
SortKeyLt(a, b, st) ==
  LET ca == st.fair_counts[a.name]
      cb == st.fair_counts[b.name]
      da == -days_since(a, st)
      db == -days_since(b, st)
  IN \/ ca < cb
     \/ ca = cb /\ da < db
     \/ ca = cb /\ da = db /\ StrLt(a.name, b.name)

RECURSIVE FairLoop(_, _, _, _)
\* for ld in ordered: skip used names, append, stop at len(chosen) >= count
FairLoop(ordered, count, chosen, used) ==
  IF ordered = <<>> THEN chosen
  ELSE IF Head(ordered).name \in used THEN FairLoop(Tail(ordered), count, chosen, used)
  ELSE IF Len(chosen) + 1 >= count THEN Append(chosen, Head(ordered))
  ELSE FairLoop(Tail(ordered), count, Append(chosen, Head(ordered)),
                used \cup {Head(ordered).name})

\* CandidatePool with the blackout test days_since > blackout_days
CandidatePool_Strict(ls, count, st) ==
  LET primary == SelectSeq(ls, LAMBDA ld : days_since(ld, st) > blackout_days)
  IN IF Len(primary) >= count THEN primary ELSE ls

\* The blackout-respecting candidate set of fair, or the whole pool.
CandidatePool(ls, count, st) ==
  LET primary == SelectSeq(ls, LAMBDA ld : days_since(ld, st) >= blackout_days)
  IN IF Len(primary) >= count THEN primary ELSE ls

\* The state after fair has chosen `chosen`.
FairUpdate(chosen, st) ==
  LET names == {chosen[i].name : i \in 1..Len(chosen)}
      times(n) == Cardinality({i \in 1..Len(chosen) : chosen[i].name = n})
  IN IF st.current_date = NoDate THEN st
     ELSE [st EXCEPT
             !.fair_counts = [n \in NameSet |-> @[n] + times(n)],
             !.fair_last = [n \in NameSet |->
                              IF n \in names THEN st.current_date ELSE @[n]]]

fair(ls, count, st) ==
  IF ls = <<>> \/ count <= 0 THEN {Returned(<<>>, st)}
  ELSE LET pool == CandidatePool(ls, count, st)
           ordered == StableSort(pool, {p \in Pairs(pool) :
                                          SortKeyLt(pool[p[1]], pool[p[2]], st)})
           chosen == FairLoop(ordered, count, <<>>, {})
       IN {Returned(chosen, FairUpdate(chosen, st))}

\* get_strategy(name)(leaders, count, state)
Strategy(name, ls, count, st) ==
  CASE name = "fair" -> fair(ls, count, st)
    [] name = "round_robin" -> round_robin(ls, count, st)
    [] name = "random" -> random_pick(ls, count, st)
    [] name = "weighted" -> weighted(ls, count, st)

\* ------------------------------------------------ scheduler.py: rotation
GroupNames == {"A", "B", "C"}

\* The distinct months of the events, in dict insertion order.
RECURSIVE MonthKeys(_, _)
MonthKeys(evs, seen) ==
  IF evs = <<>> THEN <<>>
  ELSE IF YM(Head(evs).date) \in seen THEN MonthKeys(Tail(evs), seen)
  ELSE <<YM(Head(evs).date)>> \o MonthKeys(Tail(evs), seen \cup {YM(Head(evs).date)})

\* key (e.date, e.description)
DateDescLt(e1, e2) ==
  \/ e1.date < e2.date
  \/ e1.date = e2.date /\ StrLt(e1.description, e2.description)

\* The order in which the pre-pass visits the events, as indices into evs:
\* month by month, each month's events sorted by (date, description).
RotationOrder(evs) ==
  LET keys == MonthKeys(evs, {})
      idxs == [i \in 1..Len(evs) |-> i]
      month(k) == SelectSeq(idxs, LAMBDA i : YM(evs[i].date) = keys[k])
      evs_sorted(k) ==
        StableSort(month(k), {p \in Pairs(month(k)) :
                                DateDescLt(evs[month(k)[p[1]]], evs[month(k)[p[2]]])})
  IN Concat([k \in 1..Len(keys) |-> evs_sorted(k)])

\* CandidateLt with the month flag inverted (g not in month_used)
CandidateLt_FlagInverted(g1, g2, used, usage) ==
  LET u1 == IF g1 \in used THEN 0 ELSE 1
      u2 == IF g2 \in used THEN 0 ELSE 1
  IN \/ u1 < u2
     \/ u1 = u2 /\ usage[g1] < usage[g2]
     \/ u1 = u2 /\ usage[g1] = usage[g2] /\ StrLt(g1, g2)

\* CandidateLt on (already used this month, name), the total usage left out
CandidateLt_NoUsage(g1, g2, used, usage) ==
  LET u1 == IF g1 \in used THEN 1 ELSE 0
      u2 == IF g2 \in used THEN 1 ELSE 0
  IN \/ u1 < u2
     \/ u1 = u2 /\ StrLt(g1, g2)

\* key (already used this month, total usage, name); False < True
CandidateLt(g1, g2, used, usage) ==
  LET u1 == IF g1 \in used THEN 1 ELSE 0
      u2 == IF g2 \in used THEN 1 ELSE 0
  IN \/ u1 < u2
     \/ u1 = u2 /\ usage[g1] < usage[g2]
     \/ u1 = u2 /\ usage[g1] = usage[g2] /\ StrLt(g1, g2)

\* ChooseGroup without the sort: the first group of the pool
ChooseGroup_PoolHead(pool, used, usage) == pool[1]

\* candidates.sort(...); candidates[0][2]
ChooseGroup(pool, used, usage) ==
  StableSort(pool, {p \in Pairs(pool) :
                      CandidateLt(pool[p[1]], pool[p[2]], used, usage)})[1]

\* ------------------------------------------------ scheduler.py: leaders
\* any(g in ev.groups_involved for g in ld.groups) and ld.is_available_on(ev.date)
EligibleCombined(ev, lds) ==
  SelectSeq(lds, LAMBDA ld :
    /\ Range(ld.groups) \cap Range(ev.groups_involved) # {}
    /\ is_available_on(ld, ev.date))

\* EligibleSeparate without the availability test
EligibleSeparate_NoAvailability(ev, grp, lds) ==
  SelectSeq(lds, LAMBDA ld : grp \in Range(ld.groups))

\* grp in ld.groups and ld.is_available_on(ev.date)
EligibleSeparate(ev, grp, lds) ==
  SelectSeq(lds, LAMBDA ld : grp \in Range(ld.groups) /\ is_available_on(ld, ev.date))

\* The gap filter: never assigned, or at least GAP_DAYS ago.
GapFiltered(ev, eligible, last) ==
  SelectSeq(eligible, LAMBDA ld :
    last[ld.name] = NoDate \/ ev.date - last[ld.name] >= GAP_DAYS)

\* AfterGap without the filter: every eligible leader goes to the strategy
AfterGap_NoFilter(ev, eligible, last) == eligible

\* `if filtered: eligible = filtered`
AfterGap(ev, eligible, last) ==
  LET filtered == GapFiltered(ev, eligible, last)
  IN IF filtered # <<>> THEN filtered ELSE eligible

\* last_assigned[ch.name] = ev.date for every chosen leader
MarkAssigned(last, chosen, d) ==
  [n \in NameSet |-> IF \E i \in 1..Len(chosen) : chosen[i].name = n THEN d ELSE last[n]]

\* `from .strategies import fair as strategy`
StrategyUsed == "fair"

\* One strategy(...) call of assign_leaders and its record in the call log.
Invoke(pool, count, st) == CHOOSE r \in Strategy(StrategyUsed, pool, count, st) : TRUE

CallRecord(name, i, grp, unfiltered, filtered, pool, count, st, r) ==
  [event |-> i, slot |-> grp, strategy |-> name, unfiltered |-> unfiltered,
   filtered |-> filtered, pool |-> pool, count |-> count, before |-> st,
   chosen |-> r.chosen, raised |-> r.raised, after |-> r.state]

\* The combined branch for event i: what it leaves behind.
Combined(i, ev, lds, lpe, last, st) ==
  LET unfiltered == EligibleCombined(ev, lds)
      eligible == AfterGap(ev, unfiltered, last)
      needed == IF ev.responsibility_mode = "leader" THEN 1 ELSE Min(lpe, Len(eligible))
      r == IF needed > 0 THEN Invoke(eligible, needed, st) ELSE Returned(<<>>, st)
  IN [raised |-> r.raised,
      leaders |-> r.chosen,
      last |-> MarkAssigned(last, r.chosen, ev.date),
      state |-> r.state,
      calls |-> IF needed > 0
                THEN <<CallRecord(StrategyUsed, i, NoGroup, unfiltered,
                                 GapFiltered(ev, unfiltered, last), eligible, needed, st, r)>>
                ELSE <<>>]

\* group_to_leader[grp] = ld on an insertion-ordered dict of <<grp, ld>> pairs
DictSet(d, k, v) ==
  IF \E j \in 1..Len(d) : d[j][1] = k
  THEN [j \in 1..Len(d) |-> IF d[j][1] = k THEN <<k, v>> ELSE d[j]]
  ELSE Append(d, <<k, v>>)

\* SeparateSlot without the `if chosen_list` guard: chosen_list[0] on an empty
\* list raises IndexError
SeparateSlot_NoGuard(i, ev, grp, lds, acc) ==
  LET unfiltered == EligibleSeparate(ev, grp, lds)
      eligible == AfterGap(ev, unfiltered, acc.last)
      r == IF eligible # <<>> THEN Invoke(eligible, 1, acc.state)
           ELSE Returned(<<>>, acc.state)
      log == IF eligible # <<>>
             THEN Append(acc.calls, CallRecord(StrategyUsed, i, grp, unfiltered,
                                           GapFiltered(ev, unfiltered, acc.last), eligible, 1,
                                           acc.state, r))
             ELSE acc.calls
  IN IF r.raised \/ r.chosen = <<>> THEN [acc EXCEPT !.raised = TRUE, !.calls = log]
     ELSE [acc EXCEPT !.group_to_leader = DictSet(@, grp, r.chosen[1]),
                      !.last = MarkAssigned(@, <<r.chosen[1]>>, ev.date),
                      !.state = r.state,
                      !.calls = log]

\* One slot (one group) of a separate event, from the accumulator acc.
SeparateSlot(i, ev, grp, lds, acc) ==
  LET unfiltered == EligibleSeparate(ev, grp, lds)
      eligible == AfterGap(ev, unfiltered, acc.last)
      r == IF eligible # <<>> THEN Invoke(eligible, 1, acc.state)
           ELSE Returned(<<>>, acc.state)
      log == IF eligible # <<>>
             THEN Append(acc.calls, CallRecord(StrategyUsed, i, grp, unfiltered,
                                           GapFiltered(ev, unfiltered, acc.last), eligible, 1,
                                           acc.state, r))
             ELSE acc.calls
  IN IF r.raised THEN [acc EXCEPT !.raised = TRUE, !.calls = log]
     ELSE IF r.chosen # <<>>
     THEN [acc EXCEPT !.group_to_leader = DictSet(@, grp, r.chosen[1]),
                      !.last = MarkAssigned(@, <<r.chosen[1]>>, ev.date),
                      !.state = r.state,
                      !.calls = log]
     ELSE [acc EXCEPT !.state = r.state, !.calls = log]

RECURSIVE SeparateLoop(_, _, _, _, _)
\* for grp in ev.groups_involved
SeparateLoop(i, ev, grps, lds, acc) ==
  IF grps = <<>> \/ acc.raised THEN acc
  ELSE SeparateLoop(i, ev, Tail(grps), lds, SeparateSlot(i, ev, Head(grps), lds, acc))

\* Unique without the `if ld.name not in seen` test
Unique_NoDedup(lds, seen) == lds

RECURSIVE Unique(_, _)
\* the leaders of a list, each name once, in first-occurrence order
Unique(lds, seen) ==
  IF lds = <<>> THEN <<>>
  ELSE IF Head(lds).name \in seen THEN Unique(Tail(lds), seen)
  ELSE <<Head(lds)>> \o Unique(Tail(lds), seen \cup {Head(lds).name})

\* The separate branch for event i: what it leaves behind.
Separate(i, ev, lds, last, st) ==
  LET acc == SeparateLoop(i, ev, ev.groups_involved, lds,
                          [raised |-> FALSE, group_to_leader |-> <<>>, last |-> last,
                           state |-> st, calls |-> <<>>])
      values == [j \in 1..Len(acc.group_to_leader) |-> acc.group_to_leader[j][2]]
  IN [raised |-> acc.raised,
      leaders |-> Unique(values, {}),
      last |-> acc.last,
      state |-> acc.state,
      calls |-> acc.calls]

\* Assignment built without the event's responsible_group
Assignment_NoGroup(i, lds, rg) == [event |-> i, leaders |-> lds, responsible_group |-> NoGroup]

\* Assignment(event, leaders, responsible_group); the event is held by
\* reference, here its index in the event list.
Assignment(i, lds, rg) == [event |-> i, leaders |-> lds, responsible_group |-> rg]

\* ------------------------------------------------------------------ inputs
\* groups_raw: the configured groups, list(groups.keys())
AllGroupNames == <<"A", "B">>

LeaderProfiles ==
  {[groups |-> <<"A">>, availability |-> Always, weight |-> 1],
   [groups |-> <<"A", "B">>, availability |-> Always, weight |-> 2],
   [groups |-> <<"B">>,
    availability |-> [dates |-> {MkDate(2026, 2, 5)}, weekdays |-> {"tue"}],
    weight |-> 1]}

\* build_leaders(leaders_raw): NumLeaders leaders with distinct names
Rosters ==
  {[i \in 1..NumLeaders |->
      Leader(LeaderNames[i], p[i].groups, p[i].availability, p[i].weight)] :
     p \in [1..NumLeaders -> LeaderProfiles]}

\* <<weekday, nth>>: 1st Tuesday, 1st Thursday, 5th Thursday, last Tuesday
RuleDays == {<<1, 1>>, <<3, 1>>, <<3, 5>>, <<1, -1>>}

RuleShapes ==
  {[name |-> "r2", kind |-> "combined", inv |-> <<>>, mode |-> "group", pool |-> <<"A", "B">>],
   [name |-> "r1", kind |-> "combined", inv |-> <<>>, mode |-> "group", pool |-> <<"A">>],
   [name |-> "r1", kind |-> "combined", inv |-> <<"A">>, mode |-> "leader", pool |-> <<>>],
   [name |-> "r2", kind |-> "separate", inv |-> <<>>, mode |-> "none", pool |-> <<>>],
   [name |-> "r1", kind |-> "separate", inv |-> <<"B", "A">>, mode |-> "group", pool |-> <<"B", "A">>]}

RuleTemplates ==
  {RecurringRule(sh.name, wn[1], wn[2], sh.kind, "", sh.inv, sh.mode, sh.pool) :
     sh \in RuleShapes, wn \in RuleDays}

RuleLists == UNION {[1..n -> RuleTemplates] : n \in 1..MaxRules}

\* <<start, end>>; end NoDate is build_schedule's end=None
Windows ==
  {<<MkDate(2026, 1, 1), MkDate(2026, 2, 28)>>,
   <<MkDate(2026, 12, 10), MkDate(2027, 1, 20)>>}

\* Events a caller of assign_leaders constructs itself.
DirectDates == {MkDate(2026, 1, 27), MkDate(2026, 1, 29), MkDate(2026, 2, 3)}

DirectShapes ==
  {[kind |-> "combined", desc |-> "r2", inv |-> <<"A", "B">>, mode |-> "none", req |-> TRUE, pool |-> <<>>],
   [kind |-> "combined", desc |-> "r1", inv |-> <<"A">>, mode |-> "leader", req |-> TRUE, pool |-> <<>>],
   [kind |-> "separate", desc |-> "r1", inv |-> <<"A", "B">>, mode |-> "group", req |-> TRUE, pool |-> <<"A", "B">>],
   [kind |-> "combined", desc |-> "r2", inv |-> <<"A", "B">>, mode |-> "group", req |-> FALSE, pool |-> <<"A">>]}

DirectEvents ==
  {Event(d, sh.kind, sh.desc, sh.inv, sh.mode, sh.req, sh.pool) :
     d \in DirectDates, sh \in DirectShapes}

\* date-sorted event lists
EventLists ==
  {es \in UNION {[1..n -> DirectEvents] : n \in 1..MaxEvents} :
     \A i \in 1..(Len(es) - 1) : es[i].date <= es[i + 1].date}

\* ------------------------------------------------------------------- state
VARIABLES
  entry,              \* who runs: "cli" (main), "build", "assign", "strategy"
  requested,          \* the strategy the caller names
  rules_objs,         \* build_schedule's rules
  start,              \* window start
  end,                \* window end, NoDate for None
  leaders,            \* the Leader list
  leaders_per_event,  \* assign_leaders' parameter
  events,             \* the Event list (responsible_group is mutated in place)
  pc,                 \* "start", "rotate", "assign", "done", "raised", "strategy", "filtered"
  rot_order,          \* the order in which the pre-pass visits the events
  rot_i,              \* position of the pre-pass in rot_order
  month_used,         \* groups used in the month being rotated
  global_usage,       \* group -> times chosen
  ev_i,               \* position of the leader pass in events
  last_assigned,      \* leader name -> date or NoDate
  state,              \* the strategy state dict
  assignments,        \* the Assignment list
  calls,              \* log of the strategy calls made
  ncalls,             \* number of strategy calls of a directly driven run
  first,              \* <<the Schedule an earlier build_schedule call returned>>, or <<>>
  filtered            \* <<the Schedule filter_dates returned>>, or <<>>

vars == <<entry, requested, rules_objs, start, end, leaders, leaders_per_event,
          events, pc, rot_order, rot_i, month_used, global_usage, ev_i,
          last_assigned, state, assignments, calls, ncalls, first, filtered>>

\* What assign_leaders sets up before its loops.
Fresh ==
  /\ rot_order = <<>>
  /\ rot_i = 1
  /\ month_used = {}
  /\ global_usage = [g \in GroupNames |-> 0]
  /\ ev_i = 1
  /\ last_assigned = [n \in NameSet |-> NoDate]
  /\ state = EmptyState
  /\ assignments = <<>>
  /\ calls = <<>>
  /\ ncalls = 0
  /\ first = <<>>
  /\ filtered = <<>>

InitCli ==
  /\ entry = "cli"
  /\ requested \in StrategyNames
  /\ rules_objs \in {<<r>> : r \in RuleTemplates}
  /\ \E w \in Windows : start = w[1] /\ end = w[2]
  /\ leaders \in Rosters
  /\ leaders_per_event = DefaultLeadersPerEvent
  /\ events = <<>>
  /\ pc = "start"
  /\ Fresh

InitBuild ==
  /\ entry = "build"
  /\ requested = "fair"
  /\ rules_objs \in RuleLists
  /\ \E w \in Windows : start = w[1] /\ end = w[2]
  /\ leaders \in Rosters
  /\ leaders_per_event = DefaultLeadersPerEvent
  /\ events = <<>>
  /\ pc = "start"
  /\ Fresh

InitAssign ==
  /\ entry = "assign"
  /\ requested = "fair"
  /\ rules_objs = <<>>
  /\ start = NoDate
  /\ end = NoDate
  /\ leaders \in Rosters
  /\ leaders_per_event \in 1..DefaultLeadersPerEvent
  /\ events \in EventLists
  /\ pc = "start"
  /\ Fresh

Init == InitCli \/ InitBuild \/ InitAssign

\* ----------------------------------------------------------------- actions
\* main(): build_schedule(args.year, ..., strategy=args.strategy,
\* min_gap_days=...) against a build_schedule that takes neither keyword:
\* the call raises TypeError before anything is scheduled.
Main ==
  /\ entry = "cli"
  /\ pc = "start"
  /\ pc' = "raised"
  /\ UNCHANGED <<rot_order, entry, requested, rules_objs, start, end, leaders, leaders_per_event,
                 events, rot_i, month_used, global_usage, ev_i, last_assigned,
                 state, assignments, calls, ncalls, first, filtered>>

\* build_schedule up to its call of assign_leaders(events, leaders)
BuildSchedule ==
  /\ entry = "build"
  /\ pc = "start"
  /\ end' = IF end = NoDate THEN start + DefaultSpanDays ELSE end
  /\ events' = expand_events(rules_objs, AllGroupNames, start, end')
  /\ pc' = "rotate"
  /\ rot_order' = RotationOrder(events')
  /\ UNCHANGED <<entry, requested, rules_objs, start, leaders, leaders_per_event,
                 rot_i, month_used, global_usage, ev_i, last_assigned,
                 state, assignments, calls, ncalls, first, filtered>>

\* a caller's own assign_leaders(events, leaders, leaders_per_event)
AssignLeaders ==
  /\ entry = "assign"
  /\ pc = "start"
  /\ pc' = "rotate"
  /\ rot_order' = RotationOrder(events)
  /\ UNCHANGED <<entry, requested, rules_objs, start, end, leaders, leaders_per_event,
                 events, rot_i, month_used, global_usage, ev_i, last_assigned,
                 state, assignments, calls, ncalls, first, filtered>>

\* The event the pre-pass is at, and the month_used set it sees there
\* (a new set at the first event of every month).
RotIndex == rot_order[rot_i]

MonthUsedHere ==
  IF rot_i = 1 THEN {}
  ELSE IF YM(events[rot_order[rot_i - 1]].date) # YM(events[RotIndex].date)
  THEN {}
  ELSE month_used

NeedsGroup(ev) == ev.responsibility_mode = "group" /\ ev.rotation_pool # <<>>

\* pre-pass, an event with a rotation pool
RotateGroup ==
  /\ pc = "rotate"
  /\ rot_i <= Len(events)
  /\ NeedsGroup(events[RotIndex])
  /\ LET chosen == ChooseGroup(events[RotIndex].rotation_pool, MonthUsedHere, global_usage)
     IN /\ events' = [events EXCEPT ![RotIndex].responsible_group = chosen]
        /\ month_used' = MonthUsedHere \cup {chosen}
        /\ global_usage' = [global_usage EXCEPT ![chosen] = @ + 1]
  /\ rot_i' = rot_i + 1
  /\ UNCHANGED <<rot_order, entry, requested, rules_objs, start, end, leaders, leaders_per_event,
                 pc, ev_i, last_assigned, state, assignments, calls, ncalls, first, filtered>>

\* pre-pass, any other event
RotateSkip ==
  /\ pc = "rotate"
  /\ rot_i <= Len(events)
  /\ ~NeedsGroup(events[RotIndex])
  /\ month_used' = MonthUsedHere
  /\ rot_i' = rot_i + 1
  /\ UNCHANGED <<rot_order, entry, requested, rules_objs, start, end, leaders, leaders_per_event,
                 events, pc, global_usage, ev_i, last_assigned, state, assignments,
                 calls, ncalls, first, filtered>>

\* the pre-pass is over, the leader pass begins
RotateDone ==
  /\ pc = "rotate"
  /\ rot_i > Len(events)
  /\ pc' = "assign"
  /\ UNCHANGED <<rot_order, entry, requested, rules_objs, start, end, leaders, leaders_per_event,
                 events, rot_i, month_used, global_usage, ev_i, last_assigned,
                 state, assignments, calls, ncalls, first, filtered>>

\* state["current_date"] = ev.date
Dated(st, ev) == [st EXCEPT !.current_date = ev.date]

\* leader pass, `if not ev.leader_required`
AssignNotRequired ==
  /\ pc = "assign"
  /\ ev_i <= Len(events)
  /\ ~events[ev_i].leader_required
  /\ state' = Dated(state, events[ev_i])
  /\ assignments' = Append(assignments,
                           Assignment(ev_i, <<>>, events[ev_i].responsible_group))
  /\ ev_i' = ev_i + 1
  /\ UNCHANGED <<rot_order, entry, requested, rules_objs, start, end, leaders, leaders_per_event,
                 events, pc, rot_i, month_used, global_usage, last_assigned, calls,
                 ncalls, first, filtered>>

\* What the branch result r of event ev_i does to the run.
Settle(r) ==
  /\ state' = r.state
  /\ last_assigned' = r.last
  /\ calls' = calls \o r.calls
  /\ IF r.raised
     THEN /\ pc' = "raised"
          /\ UNCHANGED <<assignments, ev_i>>
     ELSE /\ pc' = pc
          /\ assignments' = Append(assignments,
                               Assignment(ev_i, r.leaders, events[ev_i].responsible_group))
          /\ ev_i' = ev_i + 1
  /\ UNCHANGED <<rot_order, entry, requested, rules_objs, start, end, leaders, leaders_per_event,
                 events, rot_i, month_used, global_usage, ncalls, first, filtered>>

\* leader pass, `if ev.kind == "combined"`
AssignCombined ==
  /\ pc = "assign"
  /\ ev_i <= Len(events)
  /\ events[ev_i].leader_required
  /\ events[ev_i].kind = "combined"
  /\ Settle(Combined(ev_i, events[ev_i], leaders, leaders_per_event, last_assigned,
                     Dated(state, events[ev_i])))

\* leader pass, `else` (separate)
AssignSeparate ==
  /\ pc = "assign"
  /\ ev_i <= Len(events)
  /\ events[ev_i].leader_required
  /\ events[ev_i].kind # "combined"
  /\ Settle(Separate(ev_i, events[ev_i], leaders, last_assigned,
                     Dated(state, events[ev_i])))

\* `return assignments` (and, for build_schedule, Schedule(assignments))
Return ==
  /\ pc = "assign"
  /\ ev_i > Len(events)
  /\ pc' = "done"
  /\ UNCHANGED <<rot_order, entry, requested, rules_objs, start, end, leaders, leaders_per_event,
                 events, rot_i, month_used, global_usage, ev_i, last_assigned,
                 state, assignments, calls, ncalls, first, filtered>>

\* `state: Dict = {}`: every assign_leaders call starts from a new dict, whatever
\* an earlier call left in its own.
NewState_Kept(prev) == prev

NewState(prev) == EmptyState

\* build_schedule called once more with the arguments of the call that returned
\* (entry "build"): the Schedule it returned is kept by the caller as `first`,
\* the new call expands the rules again and assign_leaders makes its locals anew.
BuildAgain ==
  /\ entry = "build"
  /\ pc = "done"
  /\ first = <<>>
  /\ first' = <<[events |-> events, assignments |-> assignments]>>
  /\ events' = expand_events(rules_objs, AllGroupNames, start, end)
  /\ rot_order' = RotationOrder(events')
  /\ rot_i' = 1
  /\ month_used' = {}
  /\ global_usage' = [g \in GroupNames |-> 0]
  /\ ev_i' = 1
  /\ last_assigned' = [n \in NameSet |-> NoDate]
  /\ state' = NewState(state)
  /\ assignments' = <<>>
  /\ calls' = <<>>
  /\ pc' = "rotate"
  /\ UNCHANGED <<entry, requested, rules_objs, start, end, leaders, leaders_per_event,
                 ncalls, filtered>>

Next ==
  \/ Main
  \/ BuildSchedule
  \/ AssignLeaders
  \/ RotateGroup
  \/ RotateSkip
  \/ RotateDone
  \/ AssignNotRequired
  \/ AssignCombined
  \/ AssignSeparate
  \/ Return

Spec == Init /\ [][Next]_vars

\* Schedule.filter_dates with start <= a.event.date < end
filter_dates_EndExclusive(asgs, evs, s, e) ==
  SelectSeq(asgs, LAMBDA a : s <= evs[a.event].date /\ evs[a.event].date < e)

\* Schedule.filter_dates(start, end): the assignment list of the new Schedule.
\* An Assignment names its event by position in evs.
filter_dates(asgs, evs, s, e) ==
  SelectSeq(asgs, LAMBDA a : s <= evs[a.event].date /\ evs[a.event].date <= e)

\* The dates a caller filters by: the event dates and one between them.
FilterBounds == DirectDates \cup {MkDate(2026, 1, 28)}

\* Schedule(assignments).filter_dates(s, e) on what assign_leaders returned;
\* `filtered` keeps the arguments with the list of the new Schedule.
FilterDates ==
  /\ entry = "assign"
  /\ pc = "done"
  /\ \E s \in FilterBounds, e \in FilterBounds :
       filtered' = <<[start |-> s, end |-> e,
                      assignments |-> filter_dates(assignments, events, s, e)]>>
  /\ pc' = "filtered"
  /\ UNCHANGED <<entry, requested, rules_objs, start, end, leaders, leaders_per_event,
                 events, rot_order, rot_i, month_used, global_usage, ev_i, last_assigned,
                 state, assignments, calls, ncalls, first>>

NextFilter ==
  \/ AssignLeaders
  \/ RotateGroup
  \/ RotateSkip
  \/ RotateDone
  \/ AssignNotRequired
  \/ AssignCombined
  \/ AssignSeparate
  \/ Return
  \/ FilterDates

SpecFilter == InitAssign /\ [][NextFilter]_vars

\* expand_events called on its own: rules of every kind and mode, for the
\* first, a middle, the 5th, the last and the 5th-from-last occurrence of a
\* weekday, over windows inside one year, across a year end, and through the
\* February of a leap year.
ExpandDays == {<<1, 1>>, <<1, 3>>, <<3, 5>>, <<6, -1>>, <<3, -5>>}

ExpandShapes ==
  RuleShapes \cup
    {[name |-> "r3", kind |-> "combined", inv |-> <<"A">>, mode |-> "none", pool |-> <<>>]}

ExpandTemplates ==
  {RecurringRule(sh.name, wn[1], wn[2], sh.kind, "", sh.inv, sh.mode, sh.pool) :
     sh \in ExpandShapes, wn \in ExpandDays}

ExpandWindows ==
  Windows \cup {<<MkDate(2027, 12, 20), MkDate(2028, 3, 10)>>}

InitExpand ==
  /\ entry = "expand"
  /\ requested = "fair"
  /\ rules_objs \in UNION {[1..n -> ExpandTemplates] : n \in 1..MaxRules}
  /\ \E w \in ExpandWindows : start = w[1] /\ end = w[2]
  /\ leaders = <<>>
  /\ leaders_per_event = DefaultLeadersPerEvent
  /\ events = <<>>
  /\ pc = "start"
  /\ Fresh

\* events = expand_events(rules, all_groups, start, end)
ExpandEvents ==
  /\ entry = "expand"
  /\ pc = "start"
  /\ events' = expand_events(rules_objs, AllGroupNames, start, end)
  /\ pc' = "done"
  /\ UNCHANGED <<entry, requested, rules_objs, start, end, leaders, leaders_per_event,
                 rot_order, rot_i, month_used, global_usage, ev_i, last_assigned,
                 state, assignments, calls, ncalls, first, filtered>>

NextExpand == ExpandEvents

SpecExpand == InitExpand /\ [][NextExpand]_vars

\* A year of one monthly rule: build_schedule(leaders, groups, [rule], start)
\* from 1 January, end given as 31 December or left None, for a roster of
\* leaders with no availability constraint who all belong to the rule's group.
YearRule == RecurringRule("r1", 1, 3, "combined", "r1", <<"A">>, "leader", <<>>)

YearRoster(n) == [i \in 1..n |-> Leader(LeaderNames[i], <<"A">>, Always, 1)]

InitYear ==
  /\ entry = "build"
  /\ requested = "fair"
  /\ rules_objs = <<YearRule>>
  /\ \E y \in {2026, 2027} :
       /\ start = MkDate(y, 1, 1)
       /\ end \in {NoDate, MkDate(y, 12, 31)}
  /\ \E n \in 1..YearLeaders : leaders = YearRoster(n)
  /\ leaders_per_event = DefaultLeadersPerEvent
  /\ events = <<>>
  /\ pc = "start"
  /\ Fresh

SpecYear == (Init \/ InitYear) /\ [][Next]_vars

\* build_schedule called twice by one caller
NextTwice ==
  \/ BuildSchedule
  \/ RotateGroup
  \/ RotateSkip
  \/ RotateDone
  \/ AssignNotRequired
  \/ AssignCombined
  \/ AssignSeparate
  \/ Return
  \/ BuildAgain

SpecTwice == InitBuild /\ [][NextTwice]_vars

TypeOK ==
  /\ pc \in {"start", "rotate", "assign", "done", "raised", "strategy", "filtered"}
  /\ Len(assignments) <= Len(events)

\* ------------------------------------------- the strategies, driven directly
\* A caller that owns a state dict and calls one registered strategy on pools
\* drawn from its leaders, as the engine does: it sets state["current_date"],
\* then calls.  calls holds the record of the latest call only.
Pools(lds) ==
  {[j \in 1..Len(p) |-> lds[p[j]]] :
     p \in UNION {Samples(Len(lds), k) : k \in 0..Len(lds)}}

FirstDate == MkDate(2026, 1, 27)

DateSteps == {0, 2, 7}

NextDates(st) ==
  IF st.current_date = NoDate THEN {FirstDate}
  ELSE {st.current_date + d : d \in DateSteps}

InitStrategy ==
  /\ entry = "strategy"
  /\ requested \in StrategyNames
  /\ rules_objs = <<>>
  /\ start = NoDate
  /\ end = NoDate
  /\ leaders \in Rosters
  /\ leaders_per_event = DefaultLeadersPerEvent
  /\ events = <<>>
  /\ pc = "strategy"
  /\ Fresh

\* One call of strategy `name` with every pool, count and date it may get.
Call(name) ==
  /\ pc = "strategy"
  /\ ncalls < MaxCalls
  /\ \E pool \in Pools(leaders), count \in 0..MaxCount, d \in NextDates(state) :
       \E r \in Strategy(name, pool, count, [state EXCEPT !.current_date = d]) :
         /\ state' = r.state
         /\ calls' = <<CallRecord(name, 0, NoGroup, pool, pool, pool, count,
                                     [state EXCEPT !.current_date = d], r)>>
         /\ pc' = IF r.raised THEN "raised" ELSE pc
  /\ ncalls' = ncalls + 1
  /\ UNCHANGED <<entry, requested, rules_objs, start, end, leaders, leaders_per_event,
                 events, rot_order, rot_i, month_used, global_usage, ev_i,
                 last_assigned, assignments, first, filtered>>

CallFair ==
  /\ requested = "fair"
  /\ Call("fair")

CallRoundRobin ==
  /\ requested = "round_robin"
  /\ Call("round_robin")

CallRandom ==
  /\ requested = "random"
  /\ Call("random")

CallWeighted ==
  /\ requested = "weighted"
  /\ Call("weighted")

NextStrategy == CallFair \/ CallRoundRobin \/ CallRandom \/ CallWeighted

SpecStrategy == InitStrategy /\ [][NextStrategy]_vars

\* assign_leaders on events that rotate over one pool: combined events that
\* need no leader, in group mode with the pool, in group mode without a pool,
\* or in no mode, on dates of two months.
RotationPools == {<<"A", "B">>, <<"B", "A", "C">>}

RotationEvents(pool) ==
  {Event(d, "combined", sh[1], AllGroupNames, sh[2], FALSE, sh[3]) :
     d \in DirectDates,
     sh \in {<<"r1", "group", pool>>, <<"r2", "group", pool>>,
             <<"r3", "none", <<>>>>, <<"r1", "group", <<>>>>}}

RotationEventLists ==
  UNION {{es \in UNION {[1..n -> RotationEvents(pool)] : n \in 1..MaxRotEvents} :
            \A i \in 1..(Len(es) - 1) : es[i].date <= es[i + 1].date} :
           pool \in RotationPools}

InitRotation ==
  /\ entry = "assign"
  /\ requested = "fair"
  /\ rules_objs = <<>>
  /\ start = NoDate
  /\ end = NoDate
  /\ leaders = <<>>
  /\ leaders_per_event = DefaultLeadersPerEvent
  /\ events \in RotationEventLists
  /\ pc = "start"
  /\ Fresh

NextRotation ==
  \/ AssignLeaders
  \/ RotateGroup
  \/ RotateSkip
  \/ RotateDone
  \/ AssignNotRequired
  \/ Return

SpecRotation == InitRotation /\ [][NextRotation]_vars

\* round_robin called again and again for one leader on one pool: `leaders` is
\* the pool, the state dict comes with the rr_idx earlier calls may have left,
\* and calls logs every call.
InitRoundRobin ==
  /\ entry = "round_robin"
  /\ requested = "round_robin"
  /\ rules_objs = <<>>
  /\ start = NoDate
  /\ end = NoDate
  /\ \E roster \in Rosters : leaders \in Pools(roster) \ {<<>>}
  /\ leaders_per_event = DefaultLeadersPerEvent
  /\ events = <<>>
  /\ pc = "strategy"
  /\ rot_order = <<>>
  /\ rot_i = 1
  /\ month_used = {}
  /\ global_usage = [g \in GroupNames |-> 0]
  /\ ev_i = 1
  /\ last_assigned = [n \in NameSet |-> NoDate]
  /\ \E k \in 0..MaxCount : state = [EmptyState EXCEPT !.rr_idx = k]
  /\ assignments = <<>>
  /\ calls = <<>>
  /\ ncalls = 0
  /\ first = <<>>
  /\ filtered = <<>>

\* round_robin(leaders, 1, state)
RoundRobinOne ==
  /\ entry = "round_robin"
  /\ ncalls < MaxRounds
  /\ \E r \in round_robin(leaders, 1, state) :
       /\ state' = r.state
       /\ calls' = Append(calls, CallRecord("round_robin", 0, NoGroup, leaders, leaders,
                                          leaders, 1, state, r))
  /\ ncalls' = ncalls + 1
  /\ UNCHANGED <<entry, requested, rules_objs, start, end, leaders, leaders_per_event,
                 events, pc, rot_order, rot_i, month_used, global_usage, ev_i,
                 last_assigned, assignments, first, filtered>>

NextRoundRobin == RoundRobinOne

SpecRoundRobin == InitRoundRobin /\ [][NextRoundRobin]_vars

\* fair called once on a state dict that earlier calls have filled: every
\* leader of the roster has a count, and a last date some days before the
\* current date exactly when the count is not 0.
FairRoster == [i \in 1..NumLeaders |-> Leader(LeaderNames[i], <<"A">>, Always, 1)]

PriorGaps == {2, 5, 7}

FairStates ==
  {[EmptyState EXCEPT
      !.fair_counts = [n \in NameSet |-> IF n \in DOMAIN h THEN h[n][1] ELSE 0],
      !.fair_last = [n \in NameSet |->
                       IF n \in DOMAIN h /\ h[n][1] > 0 THEN FirstDate - h[n][2]
                       ELSE NoDate]] :
     h \in [{FairRoster[i].name : i \in 1..NumLeaders} -> (0..MaxCount) \X PriorGaps]}

InitFair ==
  /\ entry = "fair"
  /\ requested = "fair"
  /\ rules_objs = <<>>
  /\ start = NoDate
  /\ end = NoDate
  /\ leaders = FairRoster
  /\ leaders_per_event = DefaultLeadersPerEvent
  /\ events = <<>>
  /\ pc = "strategy"
  /\ rot_order = <<>>
  /\ rot_i = 1
  /\ month_used = {}
  /\ global_usage = [g \in GroupNames |-> 0]
  /\ ev_i = 1
  /\ last_assigned = [n \in NameSet |-> NoDate]
  /\ state \in FairStates
  /\ assignments = <<>>
  /\ calls = <<>>
  /\ ncalls = 0
  /\ first = <<>>
  /\ filtered = <<>>

\* state["current_date"] = FirstDate; fair(pool, count, state)
FairOnce ==
  /\ entry = "fair"
  /\ calls = <<>>
  /\ \E pool \in Pools(leaders), count \in 0..MaxCount :
       LET st == [state EXCEPT !.current_date = FirstDate]
       IN \E r \in fair(pool, count, st) :
            /\ state' = r.state
            /\ calls' = <<CallRecord("fair", 0, NoGroup, pool, pool, pool, count, st, r)>>
  /\ ncalls' = ncalls + 1
  /\ UNCHANGED <<entry, requested, rules_objs, start, end, leaders, leaders_per_event,
                 events, pc, rot_order, rot_i, month_used, global_usage, ev_i,
                 last_assigned, assignments, first, filtered>>

NextFair == FairOnce

SpecFair == InitFair /\ [][NextFair]_vars

\* ------------------------------------------------------------------ claims
Months == {YM(events[i].date) : i \in 1..Len(events)}

\* The group-mode events of month ym.
GroupModeIn(ym) ==
  {i \in 1..Len(events) :
     YM(events[i].date) = ym /\ events[i].responsibility_mode = "group"}

PrePassOver == pc \in {"assign", "done"}

PoolOf(i) == Range(events[i].rotation_pool)

\* All group-mode events of the month share one pool, which has at least as
\* many groups as the month has group-mode events.
SharedPoolMonth(ym) ==
  /\ GroupModeIn(ym) # {}
  /\ \A i, j \in GroupModeIn(ym) : PoolOf(i) = PoolOf(j)
  /\ \A i \in GroupModeIn(ym) : Cardinality(PoolOf(i)) >= Cardinality(GroupModeIn(ym))

DistinctGroups(G) ==
  \A i, j \in G : i # j => events[i].responsible_group # events[j].responsible_group

\* C1: after the rotation pre-pass, in every month whose group-mode events
\* share one rotation pool with at least as many groups as the month has
\* group-mode events, every such event has a responsible group and no two of
\* them have the same one.
C1_SharedPoolDistinct ==
  PrePassOver =>
    \A ym \in Months :
      SharedPoolMonth(ym) =>
        /\ \A i \in GroupModeIn(ym) : events[i].responsible_group \in PoolOf(i)
        /\ DistinctGroups(GroupModeIn(ym))

C1_Witness ==
  /\ pc = "done"
  /\ \E ym \in Months :
       /\ SharedPoolMonth(ym)
       /\ Cardinality(GroupModeIn(ym)) >= 2
       /\ DistinctGroups(GroupModeIn(ym))

\* The events of G can be given pairwise distinct groups of their pools.
HasDistinctChoice(G) ==
  \E f \in [G -> GroupNames] :
    /\ \A i \in G : f[i] \in PoolOf(i)
    /\ \A i, j \in G : i # j => f[i] # f[j]

\* C2: in a Schedule returned by build_schedule, whenever the pools of a
\* month's group-mode events allow pairwise distinct groups, no group is the
\* responsible group of two of that month's events, equal pools or not.
C2_NoRepeatWhenAvoidable ==
  (entry = "build" /\ pc = "done") =>
    \A ym \in Months :
      LET G == {i \in GroupModeIn(ym) : events[i].rotation_pool # <<>>}
      IN HasDistinctChoice(G) =>
           \A i, j \in G :
             i # j => assignments[i].responsible_group # assignments[j].responsible_group

\* C3: every leader of every Assignment has a capability among the event's
\* groups_involved and is available on the event date.
C3_LeadersCapableAvailable ==
  \A k \in 1..Len(assignments) :
    LET ev == events[assignments[k].event]
        lds == assignments[k].leaders
    IN \A j \in 1..Len(lds) :
         /\ Range(lds[j].groups) \cap Range(ev.groups_involved) # {}
         /\ is_available_on(lds[j], ev.date)

\* A leader was assigned through a call whose gap filter had left nobody.
C3_Witness ==
  \E c \in Range(calls) :
    /\ c.unfiltered # <<>>
    /\ c.filtered = <<>>
    /\ c.chosen # <<>>
    /\ c.event <= Len(assignments)
    /\ c.chosen[1] \in Range(assignments[c.event].leaders)

\* C4: the i-th Assignment refers to the i-th Event, a finished run has one
\* Assignment per Event, and the event dates of a Schedule built by
\* build_schedule are non-decreasing.
C4_OneAssignmentPerEventInOrder ==
  /\ \A k \in 1..Len(assignments) : assignments[k].event = k
  /\ pc = "done" => Len(assignments) = Len(events)
  /\ entry = "build" =>
       \A k \in 1..(Len(assignments) - 1) :
         events[assignments[k].event].date <= events[assignments[k + 1].event].date

\* A finished build whose rules, taken one after the other, give dates out of
\* order.
C4_Witness ==
  /\ entry = "build"
  /\ pc = "done"
  /\ Len(assignments) >= 3
  /\ LET raw == expand_events_Unsorted(rules_objs, AllGroupNames, start, end)
     IN \E i \in 1..(Len(raw) - 1) : raw[i].date > raw[i + 1].date

\* The number of leaders the slot of call c is meant to have.
Wanted(c) ==
  IF events[c.event].kind = "combined" /\ events[c.event].responsibility_mode # "leader"
  THEN leaders_per_event
  ELSE 1

\* C5: when the gap filter leaves a non-empty list shorter than the number of
\* leaders the slot needs while the unfiltered eligible list is longer, the
\* strategy is given the unfiltered eligible list.
C5_UnderSupplyWaivesGap ==
  \A c \in Range(calls) :
    (/\ c.filtered # <<>>
     /\ Len(c.filtered) < Wanted(c)
     /\ Len(c.unfiltered) > Len(c.filtered)) => c.pool = c.unfiltered

\* C6: a strategy call that returns, returns at most count leaders, at most
\* as many as the pool has, and no leader twice.
C6_ShortNeverDuplicated ==
  \A c \in Range(calls) :
    ~c.raised =>
      /\ Len(c.chosen) <= c.count
      /\ Len(c.chosen) <= Len(c.pool)
      /\ NoDup(c.chosen)

\* C7: no call of a registered strategy raises, whatever the pool and the
\* count; it returns leaders of the pool.
C7_StrategyNeverRaises ==
  /\ pc # "raised"
  /\ \A c \in Range(calls) : ~c.raised /\ Range(c.chosen) \subseteq Range(c.pool)

\* C8: a schedule build that names a strategy runs, and every leader
\* selection of the run is made by the named strategy.
C8_NamedStrategyInvoked ==
  entry \in {"cli", "build"} =>
    /\ pc # "raised"
    /\ \A c \in Range(calls) : c.strategy = requested

\* The positions in the call log of the calls for group g of event k.
SlotCalls(k, g) == {j \in 1..Len(calls) : calls[j].event = k /\ calls[j].slot = g}

IsSeparateSlotEvent(ev) == ev.leader_required /\ ev.kind # "combined"

\* C9: for a separate event, each group of groups_involved that has a capable
\* and available leader gets exactly one request for one leader, made among
\* leaders capable of that group; the Assignment lists exactly the chosen
\* leaders, each name once.
C9_SeparateOnePerGroupDeduplicated ==
  \A k \in 1..Len(assignments) :
    LET ev == events[assignments[k].event]
        lds == assignments[k].leaders
    IN IsSeparateSlotEvent(ev) =>
         /\ \A j \in 1..Len(calls) :
              calls[j].event = k =>
                /\ calls[j].slot \in Range(ev.groups_involved)
                /\ calls[j].count = 1
                /\ \A ld \in Range(calls[j].pool) : calls[j].slot \in Range(ld.groups)
         /\ \A g \in Range(ev.groups_involved) :
              Cardinality(SlotCalls(k, g)) =
                IF \E ld \in Range(leaders) :
                     g \in Range(ld.groups) /\ is_available_on(ld, ev.date)
                THEN 1 ELSE 0
         /\ \A i, j \in 1..Len(lds) : i # j => lds[i].name # lds[j].name
         /\ {lds[i].name : i \in 1..Len(lds)} =
              {calls[j].chosen[1].name :
                 j \in {jj \in 1..Len(calls) :
                          calls[jj].event = k /\ calls[jj].chosen # <<>>}}

\* One leader was chosen for two groups of a separate event and is listed once.
C9_Witness ==
  \E k \in 1..Len(assignments) :
    /\ IsSeparateSlotEvent(events[k])
    /\ Len(assignments[k].leaders) = 1
    /\ \E i, j \in 1..Len(calls) :
         /\ i # j
         /\ calls[i].event = k
         /\ calls[j].event = k
         /\ calls[i].slot # calls[j].slot
         /\ calls[i].chosen # <<>>
         /\ calls[i].chosen = calls[j].chosen

\* Event k has a slot with no capable and available leader.
EmptySlot(k) ==
  /\ events[k].leader_required
  /\ IF events[k].kind = "combined"
     THEN EligibleCombined(events[k], leaders) = <<>>
     ELSE \E g \in Range(events[k].groups_involved) :
            EligibleSeparate(events[k], g, leaders) = <<>>

\* C10: assign_leaders never raises; a combined event without eligible
\* leader gets no leader, a group of a separate event without eligible leader
\* gets none, and a finished run still has an Assignment for every event.
C10_EmptySlotNoError ==
  /\ entry \in {"build", "assign"} => pc # "raised"
  /\ \A k \in 1..Len(assignments) :
       LET ev == events[assignments[k].event]
       IN /\ (ev.leader_required /\ ev.kind = "combined"
                /\ EligibleCombined(ev, leaders) = <<>>)
               => assignments[k].leaders = <<>>
          /\ IsSeparateSlotEvent(ev) =>
               /\ \A g \in Range(ev.groups_involved) :
                    EligibleSeparate(ev, g, leaders) = <<>> =>
                      \A j \in SlotCalls(k, g) : calls[j].chosen = <<>>
               /\ (\A g \in Range(ev.groups_involved) :
                     EligibleSeparate(ev, g, leaders) = <<>>)
                    => assignments[k].leaders = <<>>
  /\ pc = "done" => Len(assignments) = Len(events)

\* A finished run in which an event with an empty slot is followed by an
\* event that got a leader.
C10_Witness ==
  /\ pc = "done"
  /\ Len(assignments) = Len(events)
  /\ \E k \in 1..Len(events) :
       /\ EmptySlot(k)
       /\ \E m \in (k + 1)..Len(events) : assignments[m].leaders # <<>>

\* C11: two build_schedule calls with the same arguments return the same
\* Schedule: when the second call has returned, its events (with the groups the
\* rotation gave them) and its assignments equal those of the first call, and
\* the second call does not raise where the first did not.
C11_SecondCallSameSchedule ==
  (entry = "build" /\ first # <<>>) =>
    /\ pc # "raised"
    /\ pc = "done" => /\ events = first[1].events
                      /\ assignments = first[1].assignments

C11_Witness ==
  /\ entry = "build"
  /\ first # <<>>
  /\ pc = "done"
  /\ Len(assignments) >= 2
  /\ \E i \in 1..Len(assignments) : assignments[i].leaders # <<>>
  /\ \E i \in 1..Len(assignments) : assignments[i].responsible_group # NoGroup

\* C12: with the fair strategy, leaders without availability constraints who
\* are all eligible for every event, and every event requiring leaders, the
\* fair counts of any two leaders differ by at most 1 after every event; and a
\* rule for the 3rd Tuesday over the calendar year gives 12 events, the 3rd
\* Tuesday of each month in turn, with the counts at most 1 apart at the end.
RosterNames == {leaders[i].name : i \in 1..Len(leaders)}

AllEligibleEveryEvent ==
  /\ NoDup([i \in 1..Len(leaders) |-> leaders[i].name])
  /\ \A i \in 1..Len(leaders) : leaders[i].availability = Always
  /\ \A k \in 1..Len(events) :
       /\ events[k].leader_required
       /\ \A i \in 1..Len(leaders) :
            IF events[k].kind = "combined"
            THEN Range(leaders[i].groups) \cap Range(events[k].groups_involved) # {}
            ELSE Range(events[k].groups_involved) \subseteq Range(leaders[i].groups)

CountsBalanced ==
  \A a \in RosterNames, b \in RosterNames :
    state.fair_counts[a] - state.fair_counts[b] <= 1

IsYearRun ==
  /\ entry = "build"
  /\ rules_objs = <<YearRule>>
  /\ \E y \in {2026, 2027} :
       /\ start = MkDate(y, 1, 1)
       /\ end \in {NoDate, MkDate(y, 12, 31), MkDate(y, 1, 1) + DefaultSpanDays}

ThirdTuesday(d, y, m) ==
  /\ MkDate(y, m, 15) <= d
  /\ d <= MkDate(y, m, 21)
  /\ Weekday(d) = 1

C12_FairCountsWithinOne ==
  /\ (entry \in {"build", "assign"} /\ pc \in {"assign", "done"} /\ AllEligibleEveryEvent)
       => CountsBalanced
  /\ (IsYearRun /\ pc \in {"rotate", "assign", "done"})
       => /\ Len(events) = 12
          /\ \A m \in 1..12 : ThirdTuesday(events[m].date, YearOf(start), m)
          /\ pc = "done" =>
               /\ Len(assignments) = 12
               /\ \A i \in 1..12 : Len(assignments[i].leaders) = 1
               /\ CountsBalanced

C12_Witness ==
  /\ IsYearRun
  /\ pc = "done"
  /\ Len(leaders) = 12
  /\ \A n \in RosterNames : state.fair_counts[n] = 1

\* The day of the month of a date, and whether the date is the nth occurrence
\* of weekday wd in its month: the nth from the 1st for nth > 0, the |nth|-th
\* back from the last day for nth < 0.
DayOfMonth(d) == d - MkDate(YearOf(d), MonthOf(d), 1) + 1

OccursNth(d, wd, nth) ==
  /\ Weekday(d) = wd
  /\ IF nth > 0
     THEN (DayOfMonth(d) - 1) \div 7 + 1 = nth
     ELSE (DaysInMonth(YearOf(d), MonthOf(d)) - DayOfMonth(d)) \div 7 + 1 = -nth

\* The dates of the window on which rule i is due.
DueDates(i) ==
  {d \in start..end : OccursNth(d, rules_objs[i].weekday, rules_objs[i].nth)}

\* What tells the events of one rule from those of another.
RuleSig(rule) ==
  <<rule.kind, IF rule.description # "" THEN rule.description ELSE rule.name,
    rule.responsibility.mode>>

EventSig(ev) == <<ev.kind, ev.description, ev.responsibility_mode>>

Expanded == entry = "expand" /\ pc = "done"

\* C13: expand_events makes, for every rule, one event on each date of the
\* window that is the nth (nth > 0) or |nth|-th from last (nth < 0) occurrence
\* of the rule's weekday in its month, and no other event: so at most one per
\* rule and month, and none for a month with fewer than |nth| occurrences.
C13_NthOccurrencePerMonth ==
  Expanded =>
    /\ \A i \in 1..Len(rules_objs) :
         LET due == DueDates(i)
         IN /\ \A d \in due :
                 Cardinality({k \in 1..Len(events) :
                                /\ events[k].date = d
                                /\ EventSig(events[k]) = RuleSig(rules_objs[i])})
                   = Cardinality({j \in 1..Len(rules_objs) :
                                    /\ RuleSig(rules_objs[j]) = RuleSig(rules_objs[i])
                                    /\ OccursNth(d, rules_objs[j].weekday, rules_objs[j].nth)})
            /\ \A d1, d2 \in due : YM(d1) = YM(d2) => d1 = d2
    /\ \A k \in 1..Len(events) :
         \E i \in 1..Len(rules_objs) :
           /\ EventSig(events[k]) = RuleSig(rules_objs[i])
           /\ events[k].date \in start..end
           /\ OccursNth(events[k].date, rules_objs[i].weekday, rules_objs[i].nth)

C13_Witness ==
  /\ Expanded
  /\ \E i \in 1..Len(rules_objs) :
       /\ rules_objs[i].nth = -5
       /\ DueDates(i) # {}
       /\ \E d \in start..end :
            /\ DayOfMonth(d) = 1
            /\ d + 27 <= end
            /\ \A e \in DueDates(i) : YM(e) # YM(d)
  /\ \E i \in 1..Len(rules_objs) : rules_objs[i].nth = 3 /\ DueDates(i) # {}

\* C14: every event expand_events returns is dated inside the window,
\* start <= date <= end, for windows that begin and end in mid-month and
\* that cross a year end.
C14_EventsInsideWindow ==
  Expanded => \A k \in 1..Len(events) : start <= events[k].date /\ events[k].date <= end

\* A mid-month window across a year end, with an event in it and with a rule
\* that is due in the window's last month after the window has ended.
C14_Witness ==
  /\ Expanded
  /\ YearOf(start) < YearOf(end)
  /\ DayOfMonth(start) > 1
  /\ events # <<>>
  /\ \E i \in 1..Len(rules_objs) :
       \E d \in (end + 1)..MkDate(YearOf(end), MonthOf(end), DaysInMonth(YearOf(end), MonthOf(end))) :
         OccursNth(d, rules_objs[i].weekday, rules_objs[i].nth)

\* C15: expand_events returns the events in ascending date order, and the
\* events of one date in the order of their rules in the rule list.
C15_SortedByDateThenRuleOrder ==
  Expanded =>
    /\ \A k \in 1..(Len(events) - 1) : events[k].date <= events[k + 1].date
    /\ \A k \in 1..Len(events) :
         LET d == events[k].date
             same == SelectSeq(events, LAMBDA e : e.date = d)
             rs == SelectSeq(rules_objs, LAMBDA r : OccursNth(d, r.weekday, r.nth))
         IN [j \in 1..Len(same) |-> EventSig(same[j])]
              = [j \in 1..Len(rs) |-> RuleSig(rs[j])]

\* Two events of one date whose rules come in the order "r2", "r1".
C15_Witness ==
  /\ Expanded
  /\ \E k \in 1..(Len(events) - 1) :
       /\ events[k].date = events[k + 1].date
       /\ events[k].description = "r2"
       /\ events[k + 1].description = "r1"

\* C16: every event of expand_events has leader_required exactly when its
\* responsibility_mode is "leader" or its kind is "separate".
C16_LeaderRequiredIff ==
  Expanded =>
    \A k \in 1..Len(events) :
      events[k].leader_required
        <=> (events[k].responsibility_mode = "leader" \/ events[k].kind = "separate")

\* Events of all four cases: a separate event that is not in leader mode, a
\* leader-mode combined event, and combined events of the other two modes.
C16_Witness ==
  /\ Expanded
  /\ \E k \in 1..Len(events) :
       /\ events[k].kind = "separate"
       /\ events[k].responsibility_mode # "leader"
       /\ events[k].leader_required
  /\ \E k \in 1..Len(events) :
       /\ events[k].kind = "combined"
       /\ events[k].responsibility_mode = "none"
       /\ ~events[k].leader_required

\* The positions of the assignments dated in [s, e], and the k-th of them.
KeptPositions(s, e) ==
  {i \in 1..Len(assignments) :
     s <= events[assignments[i].event].date /\ events[assignments[i].event].date <= e}

KthOf(S, k) == CHOOSE i \in S : Cardinality({j \in S : j <= i}) = k

\* C17: filter_dates(start, end) returns exactly the assignments whose event
\* date is in [start, end], both ends included, in the order they have in the
\* original, and the step leaves the original assignment list (and its
\* events) as they were.
C17_FilterDatesExactInOrderNoMutation ==
  /\ [](pc = "filtered" =>
          LET r == filtered[1]
              keep == KeptPositions(r.start, r.end)
          IN /\ Len(r.assignments) = Cardinality(keep)
             /\ \A k \in 1..Len(r.assignments) :
                  r.assignments[k] = assignments[KthOf(keep, k)])
  /\ [][pc' = "filtered" => (assignments' = assignments /\ events' = events)]_vars

\* A filter that keeps one assignment dated on its end date and drops another.
C17_Witness ==
  /\ pc = "filtered"
  /\ Len(assignments) >= 2
  /\ Len(filtered[1].assignments) >= 1
  /\ Len(filtered[1].assignments) < Len(assignments)
  /\ \E k \in 1..Len(filtered[1].assignments) :
       events[filtered[1].assignments[k].event].date = filtered[1].end

\* C18: consecutive round_robin calls for 1 leader on one pool of K leaders
\* return one leader each, the same leader K calls apart and different leaders
\* less than K calls apart (so any K calls in a row return K distinct leaders).
C18_RoundRobinPeriodK ==
  entry = "round_robin" =>
    LET K == Len(leaders)
    IN \A i \in 1..Len(calls) :
         /\ Len(calls[i].chosen) = 1
         /\ \A j \in 1..Len(calls) :
              /\ j = i + K => calls[j].chosen = calls[i].chosen
              /\ (i < j /\ j < i + K) => calls[j].chosen # calls[i].chosen

C18_Witness ==
  /\ entry = "round_robin"
  /\ Len(leaders) = 2
  /\ state.rr_idx >= 5
  /\ Len(calls) >= 4

\* Days since leader n was last assigned, as the call's state dict has it;
\* a leader never assigned counts as idle for NeverDays.
IdleDays(n, st) ==
  IF st.fair_last[n] = NoDate THEN NeverDays ELSE st.current_date - st.fair_last[n]

FairCalled == entry = "fair" /\ calls # <<>>

\* C19: in a fair call, of two pool leaders with the same prior count the one
\* assigned more recently is not chosen while the one idle longer is left out.
C19_LongerIdlePreferred ==
  FairCalled =>
    LET c == calls[1]
    IN \A a \in Range(c.pool), b \in Range(c.pool) :
         (/\ c.before.fair_counts[a.name] = c.before.fair_counts[b.name]
          /\ IdleDays(a.name, c.before) < IdleDays(b.name, c.before)
          /\ a \in Range(c.chosen))
           => b \in Range(c.chosen)

\* Two leaders with the same count, both assigned before, one of them chosen.
C19_Witness ==
  /\ FairCalled
  /\ \E a \in Range(calls[1].pool), b \in Range(calls[1].pool) :
       /\ calls[1].before.fair_counts[a.name] = calls[1].before.fair_counts[b.name]
       /\ calls[1].before.fair_counts[a.name] > 0
       /\ IdleDays(a.name, calls[1].before) < IdleDays(b.name, calls[1].before)
       /\ b \in Range(calls[1].chosen)
       /\ a \notin Range(calls[1].chosen)

\* C20: fair(pool, count, state) returns the first count leaders of its
\* candidate set in the order (count ascending, days since last assignment
\* descending, name ascending); the candidate set is the pool leaders idle
\* for at least 5 days if they are at least count, else the whole pool; the
\* call adds 1 to the count of each chosen leader and sets their last date to
\* the current date, and changes no other leader's count or last date.
C20_FairRankingAndUpdate ==
  FairCalled =>
    LET c == calls[1]
        st == c.before
        idle == {ld \in Range(c.pool) : IdleDays(ld.name, st) >= 5}
        cand == IF Cardinality(idle) >= c.count THEN idle ELSE Range(c.pool)
        Before(x, y) ==
          \/ st.fair_counts[x.name] < st.fair_counts[y.name]
          \/ /\ st.fair_counts[x.name] = st.fair_counts[y.name]
             /\ IdleDays(x.name, st) > IdleDays(y.name, st)
          \/ /\ st.fair_counts[x.name] = st.fair_counts[y.name]
             /\ IdleDays(x.name, st) = IdleDays(y.name, st)
             /\ StrLt(x.name, y.name)
        chosenNames == {c.chosen[k].name : k \in 1..Len(c.chosen)}
    IN /\ ~c.raised
       /\ Len(c.chosen) = Min(c.count, Cardinality(cand))
       /\ \A k \in 1..Len(c.chosen) :
            /\ c.chosen[k] \in cand
            /\ Cardinality({y \in cand : Before(y, c.chosen[k])}) = k - 1
       /\ \A n \in NameSet :
            /\ state.fair_counts[n]
                 = st.fair_counts[n] + (IF n \in chosenNames THEN 1 ELSE 0)
            /\ state.fair_last[n]
                 = IF n \in chosenNames THEN st.current_date ELSE st.fair_last[n]

\* A call for one leader in which the blackout decides: the leader chosen has
\* the higher count, the one left out was assigned less than 5 days before.
C20_Witness ==
  /\ FairCalled
  /\ calls[1].count = 1
  /\ Len(calls[1].chosen) = 1
  /\ \E a \in Range(calls[1].pool) :
       /\ calls[1].before.fair_counts[a.name]
            < calls[1].before.fair_counts[calls[1].chosen[1].name]
       /\ IdleDays(a.name, calls[1].before) < 5
  /\ state.fair_last[calls[1].chosen[1].name] = FirstDate

\* The pre-pass position of an event being at or before another's in the
\* (date, description) order.
DateDescLe(e1, e2) ==
  \/ e1.date < e2.date
  \/ e1.date = e2.date /\ ~StrLt(e2.description, e1.description)

\* The groups given so far to events of the month of event k, and the number
\* of events given group g so far, when the pre-pass is at position i.
GivenInMonth(i, k) ==
  {events[rot_order[p]].responsible_group :
     p \in {q \in 1..(i - 1) : YM(events[rot_order[q]].date) = YM(events[k].date)}}
    \ {NoGroup}

GivenCount(i, g) ==
  Cardinality({p \in 1..(i - 1) : events[rot_order[p]].responsible_group = g})

\* g1 before g2 in the order (given this month, times given, name)
GroupBefore(i, k, g1, g2) ==
  LET f1 == IF g1 \in GivenInMonth(i, k) THEN 1 ELSE 0
      f2 == IF g2 \in GivenInMonth(i, k) THEN 1 ELSE 0
  IN \/ f1 < f2
     \/ f1 = f2 /\ GivenCount(i, g1) < GivenCount(i, g2)
     \/ f1 = f2 /\ GivenCount(i, g1) = GivenCount(i, g2) /\ StrLt(g1, g2)

\* C21: the pre-pass visits the events of one month in (date, description)
\* order; a group-mode event with a pool gets the least group of its pool in
\* the order (given this month, times given in the run, name); the step marks
\* that group used for the month and adds exactly 1 to its usage count, and
\* changes no other count and no other event.
C21_PrePassOrderAndChoice ==
  /\ [](pc \in {"rotate", "assign", "done"} =>
          /\ Len(rot_order) = Len(events)
          /\ Range(rot_order) = 1..Len(events)
          /\ \A p, q \in 1..Len(rot_order) :
               (p < q /\ YM(events[rot_order[p]].date) = YM(events[rot_order[q]].date))
                 => DateDescLe(events[rot_order[p]], events[rot_order[q]]))
  /\ [][(pc = "rotate" /\ rot_i' = rot_i + 1) =>
          LET k == rot_order[rot_i]
              ev == events[k]
              chosen == events'[k].responsible_group
          IN IF ev.responsibility_mode = "group" /\ ev.rotation_pool # <<>>
             THEN /\ chosen \in Range(ev.rotation_pool)
                  /\ \A g \in Range(ev.rotation_pool) \ {chosen} :
                       GroupBefore(rot_i, k, chosen, g)
                  /\ month_used' = GivenInMonth(rot_i, k) \cup {chosen}
                  /\ global_usage' = [g \in GroupNames |->
                                        GivenCount(rot_i, g) + (IF g = chosen THEN 1 ELSE 0)]
                  /\ \A j \in 1..Len(events) : j # k => events'[j] = events[j]
             ELSE /\ events' = events
                  /\ global_usage' = global_usage]_vars

\* A month whose events are visited out of list order, and an event that got
\* a group other than the first by name because of the usage counts.
C21_Witness ==
  /\ entry = "assign"
  /\ leaders = <<>>
  /\ pc = "done"
  /\ \E p \in 1..(Len(rot_order) - 1) : rot_order[p] > rot_order[p + 1]
  /\ \E k \in 1..Len(events) :
       /\ events[k].rotation_pool # <<>>
       /\ \E g \in Range(events[k].rotation_pool) : StrLt(g, events[k].responsible_group)
  /\ \E k, j \in 1..Len(events) :
       /\ k # j
       /\ YM(events[k].date) = YM(events[j].date)
       /\ events[k].responsible_group # NoGroup
       /\ events[j].responsible_group # NoGroup

\* The one pool the group-mode events of the run rotate over, and the number
\* of events that have been given group g.
PooledEvents == {k \in 1..Len(events) : events[k].rotation_pool # <<>>}

OnePool ==
  \A k \in PooledEvents, j \in PooledEvents :
    events[k].rotation_pool = events[j].rotation_pool

TimesGiven(g) == Cardinality({k \in 1..Len(events) : events[k].responsible_group = g})

\* C22: when every group-mode event of the run has the same rotation pool,
\* then after every step of the pre-pass any two groups of the pool have been
\* given (and are counted in global_usage) numbers of times at most 1 apart,
\* also when a month has more such events than the pool has groups.
C22_SharedPoolUsageWithinOne ==
  (pc \in {"rotate", "assign", "done"} /\ OnePool) =>
    \A k \in PooledEvents :
      \A g1 \in Range(events[k].rotation_pool), g2 \in Range(events[k].rotation_pool) :
        /\ TimesGiven(g1) - TimesGiven(g2) <= 1
        /\ global_usage[g1] - global_usage[g2] <= 1

\* The pre-pass is over for a run with three pooled events in one month and a
\* pool of two groups.
C22_Witness ==
  /\ pc = "assign"
  /\ OnePool
  /\ \E k \in PooledEvents :
       /\ Len(events[k].rotation_pool) = 2
       /\ Cardinality({j \in PooledEvents : YM(events[j].date) = YM(events[k].date)}) >= 3
       /\ events[k].responsible_group # NoGroup

\* An event the pre-pass gives a group: group mode with a non-empty pool.
Rotates(ev) == ev.responsibility_mode = "group" /\ ev.rotation_pool # <<>>

\* C23: no leader is selected and no Assignment made while the pre-pass runs;
\* responsible_group changes only in the pre-pass, only from null, and only
\* on a group-mode event with a non-empty pool; once the pre-pass is over
\* exactly those events have a group; and every Assignment carries the group
\* of its event.
C23_GroupSetOnceBeforeLeaders ==
  /\ [](pc = "rotate" => (assignments = <<>> /\ calls = <<>>))
  /\ [](pc \in {"assign", "done", "raised"} =>
          \A k \in 1..Len(events) :
            (events[k].responsible_group # NoGroup) <=> Rotates(events[k]))
  /\ [](\A i \in 1..Len(assignments) :
          assignments[i].responsible_group
            = events[assignments[i].event].responsible_group)
  /\ [][\A k \in 1..Len(events) :
          (k <= Len(events') /\ events'[k].responsible_group # events[k].responsible_group)
            => /\ pc = "rotate"
               /\ events[k].responsible_group = NoGroup
               /\ Rotates(events[k])]_vars

\* A finished run with an event that got a group, one that did not, and an
\* Assignment with leaders.
C23_Witness ==
  /\ pc = "done"
  /\ \E k \in 1..Len(events) : events[k].responsible_group # NoGroup
  /\ \E k \in 1..Len(events) : events[k].responsible_group = NoGroup
  /\ \E i \in 1..Len(assignments) :
       /\ assignments[i].responsible_group # NoGroup
       /\ assignments[i].event # 1
  /\ \E i \in 1..Len(assignments) : assignments[i].leaders # <<>>

\* C24: a round_robin call on a non-empty pool returns
\* pool[(index + j) mod size] for j = 0..count-1, where index is what the
\* run's state held before the call whatever pool the call before had, and
\* leaves index + count in the state; a call on an empty pool returns nothing
\* and leaves the index as it was.
C24_RoundRobinOneIndex ==
  [][(requested = "round_robin" /\ ncalls' = ncalls + 1 /\ entry = "strategy") =>
       LET c == calls'[1]
           n == Len(c.pool)
       IN /\ ~c.raised
          /\ IF n = 0
             THEN /\ c.chosen = <<>>
                  /\ state'.rr_idx = state.rr_idx
             ELSE /\ Len(c.chosen) = c.count
                  /\ \A j \in 0..(c.count - 1) :
                       c.chosen[j + 1] = c.pool[((state.rr_idx + j) % n) + 1]
                  /\ state'.rr_idx = state.rr_idx + c.count]_vars

\* A call on a pool of 1 after the index has passed 2, then at 3 or more.
C24_Witness ==
  /\ entry = "strategy"
  /\ requested = "round_robin"
  /\ calls # <<>>
  /\ Len(calls[1].pool) = 1
  /\ calls[1].before.rr_idx >= 2
  /\ calls[1].count >= 1
  /\ state.rr_idx >= 3

\* C25: no Assignment of a build_schedule run has both a responsible group
\* and leaders.
C25_GroupAndLeadersExclusive ==
  entry = "build" =>
    \A i \in 1..Len(assignments) :
      ~(assignments[i].responsible_group # NoGroup /\ assignments[i].leaders # <<>>)

\* Leader named n was chosen in call p of the log; the date of call q's event.
ChosenIn(p, n) == \E j \in 1..Len(calls[p].chosen) : calls[p].chosen[j].name = n

CallDate(q) == events[calls[q].event].date

\* The call before q that last chose n (0 when there is none), and whether n
\* was assigned fewer than 5 days before the event of call q.
PreviousCall(q, n) ==
  IF \E p \in 1..(q - 1) : ChosenIn(p, n)
  THEN CHOOSE p \in 1..(q - 1) :
         ChosenIn(p, n) /\ \A r \in (p + 1)..(q - 1) : ~ChosenIn(r, n)
  ELSE 0

AssignedWithin5(q, n) ==
  \E p \in 1..(q - 1) : ChosenIn(p, n) /\ CallDate(q) - CallDate(p) < 5

\* The leaders capable of the slot of call q and available on its date.
EligibleForSlot(q) ==
  LET ev == events[calls[q].event]
  IN {leaders[i] : i \in {j \in 1..Len(leaders) :
        /\ IF calls[q].slot = NoGroup
           THEN Range(leaders[j].groups) \cap Range(ev.groups_involved) # {}
           ELSE calls[q].slot \in Range(leaders[j].groups)
        /\ is_available_on(leaders[j], ev.date)}}

C27_CombinedFromRulesAtMostOneLeader ==
  entry = "build" =>
    /\ \A i \in 1..Len(assignments) :
         events[assignments[i].event].kind = "combined"
           => Len(assignments[i].leaders) <= 1
    /\ \A q \in 1..Len(calls) :
         events[calls[q].event].kind = "combined"
           => /\ events[calls[q].event].responsibility_mode = "leader"
              /\ calls[q].count = 1

\* A combined event with two leaders to choose from, and one chosen.
C27_Witness ==
  /\ entry = "build"
  /\ pc = "done"
  /\ leaders_per_event = 2
  /\ \E q \in 1..Len(calls) :
       /\ events[calls[q].event].kind = "combined"
       /\ Len(calls[q].pool) = 2
       /\ Len(calls[q].chosen) = 1
  /\ \E i \in 1..Len(assignments) :
       /\ events[assignments[i].event].kind = "combined"
       /\ assignments[i].leaders = <<>>

\* C28: after every event of assign_leaders, the fair count of each leader is
\* the number of Assignments made so far that list the leader.
C28_FairCountIsAssignmentCount ==
  (entry \in {"build", "assign"} /\ pc \in {"assign", "done"}) =>
    \A n \in {leaders[i].name : i \in 1..Len(leaders)} :
      state.fair_counts[n]
        = Cardinality({i \in 1..Len(assignments) :
                         \E j \in 1..Len(assignments[i].leaders) :
                           assignments[i].leaders[j].name = n})

====
